---- MODULE Spec2Model ----
(***************************************************************************)
(* Model of the weather proxy in main.go: the GET / handler (query         *)
(* validation, the call to getWeather, the success and error replies),     *)
(* getWeather (http.Get, io.ReadAll, the two json.Unmarshal branches), the  *)
(* classifier getTemperature/bw and the error writer e.                     *)
(*                                                                         *)
(* Temperatures and coordinates are float32 in the source; here they are    *)
(* integers counting 1/Scale of a unit, which keeps the order and the       *)
(* values -4.001, 23.999, 18.5 of interest distinct.  A JSON document can   *)
(* carry neither NaN nor an infinity, so every temperature that reaches     *)
(* getTemperature is finite.                                                *)
(***************************************************************************)
EXTENDS Integers, Sequences, FiniteSets, TLC

\* ---------------------------------------------------------------- bounds
MaxRequests == 2      \* requests served one after the other
MaxWeather  == 2      \* descriptors in an upstream "weather" array
MaxCalls    == 2      \* repeated calls of the classifier on one input
Scale       == 1000   \* model units per degree
TempBelow   == 6      \* classifier domain: degrees below zero
TempAbove   == 26     \*                    degrees above zero

\* http.StatusOK
StatusOK == 200

SeqsUpTo(S, n) == UNION {[1..k -> S] : k \in 0..n}

\* ------------------------------------------------------- inbound queries
\* r.URL.Query() maps a key to the list of its values; a key that is absent
\* from the map is the empty list here (Query never stores an empty list).
\* Only the first value of a key is looked at, so the lists with two values
\* pair a number with a non-number both ways round.
QueryValues  == {<<>>, <<"5">>, <<"-33">>, <<"abc">>, <<"1e40">>, <<"5", "abc">>, <<"abc", "5">>}
Queries      == [lat : QueryValues, lon : QueryValues]

\* strconv.ParseFloat(s, 32): "abc" is a syntax error, "1e40" is out of the
\* float32 range (ErrRange), both with err != nil.
ParseFloat(s) ==
    CASE s = "5"   -> [err |-> FALSE, val |-> 5 * Scale]
      [] s = "-33" -> [err |-> FALSE, val |-> (-33) * Scale]
      [] OTHER     -> [err |-> TRUE,  val |-> 0]

\* The four checks of the handler, in source order.  msg is the argument of
\* e when a check fails.
validate_lonFirst(q) ==
    IF q.lon = <<>> THEN [ok |-> FALSE, msg |-> "missing query parameter: lon", latitude |-> 0, longitude |-> 0]
    ELSE IF q.lat = <<>> THEN [ok |-> FALSE, msg |-> "missing query parameter: lat", latitude |-> 0, longitude |-> 0]
    ELSE IF ParseFloat(q.lat[1]).err THEN [ok |-> FALSE, msg |-> "invalid value: lat", latitude |-> 0, longitude |-> 0]
    ELSE IF ParseFloat(q.lon[1]).err THEN [ok |-> FALSE, msg |-> "invalid value: lon", latitude |-> 0, longitude |-> 0]
    ELSE [ok |-> TRUE, msg |-> "", latitude |-> ParseFloat(q.lat[1]).val, longitude |-> ParseFloat(q.lon[1]).val]

validate(q) ==
    IF q.lat = <<>> THEN [ok |-> FALSE, msg |-> "missing query parameter: lat", latitude |-> 0, longitude |-> 0]
    ELSE IF q.lon = <<>> THEN [ok |-> FALSE, msg |-> "missing query parameter: lon", latitude |-> 0, longitude |-> 0]
    ELSE IF ParseFloat(q.lat[1]).err THEN [ok |-> FALSE, msg |-> "invalid value: lat", latitude |-> 0, longitude |-> 0]
    ELSE IF ParseFloat(q.lon[1]).err THEN [ok |-> FALSE, msg |-> "invalid value: lon", latitude |-> 0, longitude |-> 0]
    ELSE [ok |-> TRUE, msg |-> "", latitude |-> ParseFloat(q.lat[1]).val, longitude |-> ParseFloat(q.lon[1]).val]

\* ------------------------------------------------------------ classifier
bw_openLow(x, a, b) == x > a /\ x < b

bw(x, a, b) == x >= a /\ x < b

getTemperature_noDefault(x) ==
    CASE bw(x, (-4) * Scale, 0)          -> "freezing"
      [] bw(x, 0, 4 * Scale)             -> "very cold"
      [] bw(x, 4 * Scale, 8 * Scale)     -> "cold"
      [] bw(x, 8 * Scale, 12 * Scale)    -> "not so cold"
      [] bw(x, 12 * Scale, 16 * Scale)   -> "mild"
      [] bw(x, 16 * Scale, 20 * Scale)   -> "less mild"
      [] bw(x, 20 * Scale, 24 * Scale)   -> "getting hot"
      [] x >= 24 * Scale                 -> "HOT"
      [] OTHER                           -> ""

\* The switch tries its cases from the top; the intervals are disjoint, so
\* at most one guard of the CASE holds.
getTemperature(x) ==
    CASE bw(x, (-4) * Scale, 0)          -> "freezing"
      [] bw(x, 0, 4 * Scale)             -> "very cold"
      [] bw(x, 4 * Scale, 8 * Scale)     -> "cold"
      [] bw(x, 8 * Scale, 12 * Scale)    -> "not so cold"
      [] bw(x, 12 * Scale, 16 * Scale)   -> "mild"
      [] bw(x, 16 * Scale, 20 * Scale)   -> "less mild"
      [] bw(x, 20 * Scale, 24 * Scale)   -> "getting hot"
      [] OTHER                           -> "HOT"

\* ------------------------------------------------------ upstream bodies
\* A response body is a JSON document, kept as the parts the two Unmarshal
\* targets look at: not JSON at all ("invalid"), the literal null, or an
\* object with optional members weather, main.temp, cod and message.
Conditions == {"Clear", "Rain"}
MainTemps  == {(-100) * Scale, (-4) * Scale - 1, (-4) * Scale, 0,
               18 * Scale + (Scale \div 2), 24 * Scale}
Messages   == {"city not found", "Invalid API key"}

NoWeather == [has |-> FALSE, typeOK |-> TRUE, val |-> <<>>]
NoTemp    == [has |-> FALSE, val |-> 0]
NoCod     == [has |-> FALSE, isString |-> FALSE, text |-> ""]
NoMessage == [has |-> FALSE, val |-> ""]

Obj(weather, temp, cod, message) ==
    [kind |-> "object", weather |-> weather, temp |-> temp, cod |-> cod, message |-> message]

InvalidBody == [kind |-> "invalid", weather |-> NoWeather, temp |-> NoTemp, cod |-> NoCod, message |-> NoMessage]
NullBody    == [kind |-> "null", weather |-> NoWeather, temp |-> NoTemp, cod |-> NoCod, message |-> NoMessage]
EmptyObject == Obj(NoWeather, NoTemp, NoCod, NoMessage)
\* {"weather":"Clear","main":{"temp":1}}: weather is not an array
WeatherNotArray == Obj([has |-> TRUE, typeOK |-> FALSE, val |-> <<>>], [has |-> TRUE, val |-> Scale], NoCod, NoMessage)

\* "cod" as the provider sends it: the string "404", the number 401, or a
\* string that is not a number literal.
Cods == {[has |-> TRUE, isString |-> TRUE,  text |-> "404"],
         [has |-> TRUE, isString |-> FALSE, text |-> "401"],
         [has |-> TRUE, isString |-> TRUE,  text |-> "abc"]}

SuccessBodies ==
    {Obj([has |-> TRUE, typeOK |-> TRUE, val |-> ws], [has |-> TRUE, val |-> t], NoCod, NoMessage) :
        ws \in SeqsUpTo(Conditions, MaxWeather), t \in MainTemps}
ErrorBodies ==
    {Obj(NoWeather, NoTemp, c, [has |-> TRUE, val |-> m]) : c \in Cods, m \in Messages}
Bodies == SuccessBodies \cup ErrorBodies \cup {InvalidBody, NullBody, EmptyObject, WeatherNotArray}

StatusCodes == {StatusOK, 404}
NetErrors   == {"connection refused", "no such host"}
ReadErrors  == {"unexpected EOF"}

\* encoding/json accepts a JSON string for a json.Number field only if the
\* string is a valid number literal.
isValidNumber(text) == text \in {"404", "401"}

\* type owmSuccessMessage, zero value
ZeroSuccess == [Weather |-> <<>>, Main |-> [Temperature |-> 0]]

\* json.Unmarshal(body, &data) with data owmSuccessMessage.  Members the
\* struct does not name are ignored; null leaves the struct untouched.
UnmarshalSuccess(body) ==
    CASE body.kind = "invalid" -> [err |-> "invalid character", data |-> ZeroSuccess]
      [] body.kind = "null"    -> [err |-> "", data |-> ZeroSuccess]
      [] OTHER ->
           IF body.weather.has /\ ~body.weather.typeOK
           THEN [err |-> "cannot unmarshal string into Go struct field", data |-> ZeroSuccess]
           ELSE [err |-> "",
                 data |-> [Weather |-> [i \in 1..Len(body.weather.val) |-> [Main |-> body.weather.val[i]]],
                           Main |-> [Temperature |-> body.temp.val]]]

\* json.Unmarshal(body, &oError) with oError owmErrorMessage
UnmarshalError(body) ==
    CASE body.kind = "invalid" -> [err |-> "invalid character", Code |-> "", Message |-> ""]
      [] body.kind = "null"    -> [err |-> "", Code |-> "", Message |-> ""]
      [] OTHER ->
           IF body.cod.has /\ body.cod.isString /\ ~isValidNumber(body.cod.text)
           THEN [err |-> "invalid number literal", Code |-> "", Message |-> body.message.val]
           ELSE [err |-> "", Code |-> body.cod.text, Message |-> body.message.val]

\* One line of the server log: the prefix given to fmt.Errorf or, for e, the
\* message itself; the wrapped cause; the provider code.
LogLine(prefix, cause, code) == [prefix |-> prefix, cause |-> cause, code |-> code]

\* What getWeather returns: (owmSuccessMessage, error).  isErr is err != nil;
\* errors.New("") is a non-nil error with an empty message.
Return(isErr, msg, data) == [isErr |-> isErr, msg |-> msg, data |-> data]

\* getWeather from the status check on, once the body has been read: the
\* value returned and the line logged (<<>> when nothing is logged).
parseResponse_leakCode(statusCode, body) ==
    IF statusCode # StatusOK
    THEN IF UnmarshalError(body).err # ""
         THEN [ret |-> Return(TRUE, UnmarshalError(body).err, ZeroSuccess),
               log |-> <<LogLine("unmarshall error request body", UnmarshalError(body).err, "")>>]
         ELSE [ret |-> Return(TRUE, UnmarshalError(body).Code, ZeroSuccess),
               log |-> <<LogLine("non-200 response", UnmarshalError(body).Message, UnmarshalError(body).Code)>>]
    ELSE IF UnmarshalSuccess(body).err # ""
         THEN [ret |-> Return(TRUE, UnmarshalSuccess(body).err, ZeroSuccess),
               log |-> <<LogLine("unmarshall request body", UnmarshalSuccess(body).err, "")>>]
         ELSE [ret |-> Return(FALSE, "", UnmarshalSuccess(body).data), log |-> <<>>]

parseResponse(statusCode, body) ==
    IF statusCode # StatusOK
    THEN IF UnmarshalError(body).err # ""
         THEN [ret |-> Return(TRUE, "internal server error", ZeroSuccess),
               log |-> <<LogLine("unmarshall error request body", UnmarshalError(body).err, "")>>]
         ELSE [ret |-> Return(TRUE, UnmarshalError(body).Message, ZeroSuccess),
               log |-> <<LogLine("non-200 response", UnmarshalError(body).Message, UnmarshalError(body).Code)>>]
    ELSE IF UnmarshalSuccess(body).err # ""
         THEN [ret |-> Return(TRUE, "internal server error", ZeroSuccess),
               log |-> <<LogLine("unmarshall request body", UnmarshalSuccess(body).err, "")>>]
         ELSE [ret |-> Return(FALSE, "", UnmarshalSuccess(body).data), log |-> <<>>]

\* ----------------------------------------------------------------- state
VARIABLES
    pc,         \* where the handler of the current request stands
    query,      \* r.URL.Query() of the current request
    w,          \* the bodies given to w.Write for the current request, as JSON objects
    logs,       \* the lines given to log.Println for the current request
    calls,      \* the URLs given to http.Get for the current request
    resp,       \* the *http.Response held by getWeather
    getErr,     \* err of http.Get: "unset" before the call, "" for nil, else the cause
    readErr,    \* err of io.ReadAll: "unset" before the call, "" for nil, else the cause
    bodyState,  \* resp.Body: "none" (no response), "open", "closed"
    ret,        \* what getWeather returned to the handler
    nreq,       \* requests accepted so far
    faults,     \* whether json.Marshal may return an error
    respFailed, \* json.Marshal(response{...}) returned an error for the current request
    errFailed,  \* json.Marshal(httpError{...}) in e returned an error for the current request
    x,          \* the argument of getTemperature when it is called on its own
    labels      \* what the calls of getTemperature(x) returned, in order

vars == <<pc, query, w, logs, calls, resp, getErr, readErr, bodyState, ret, nreq, faults, respFailed, errFailed, x, labels>>

NoQuery  == [lat |-> <<>>, lon |-> <<>>]
NoResp   == [StatusCode |-> 0, Body |-> NullBody]
NoReturn == Return(FALSE, "", ZeroSuccess)

\* json.Marshal of the two reply structs, by their json tags
httpErrorJSON(msg) == [status |-> "error", message |-> msg]
responseJSON(condition, feel) == [status |-> "", condition |-> condition, temperature_feel |-> feel]

\* err.Error() of a failed json.Marshal
MarshalError == "json: marshal failed"

\* json.Marshal never fails on a struct of strings; the branches the source
\* has for its failure are exercised only where faults is set.
MarshalOutcomes == IF faults THEN BOOLEAN ELSE {TRUE}

\* The URL of the upstream request: the coordinates and the fixed unit system
URL(latitude, longitude) == [units |-> "metric", lat |-> latitude, lon |-> longitude]

\* e(w, msg): marshal the error, panic if that fails, else write it and log
\* msg.  A panic in a handler ends the request (net/http recovers it and
\* closes the connection); nothing is written.
e_writeAnyway(msg, marshalOK) ==
    /\ w' = Append(w, httpErrorJSON(msg))
    /\ logs' = Append(logs, LogLine(msg, "", ""))
    /\ errFailed' = ~marshalOK
    /\ pc' = "done"

e(msg, marshalOK) ==
    IF marshalOK
    THEN /\ w' = Append(w, httpErrorJSON(msg))
         /\ logs' = Append(logs, LogLine(msg, "", ""))
         /\ pc' = "done"
         /\ UNCHANGED errFailed
    ELSE /\ errFailed' = TRUE
         /\ pc' = "crashed"
         /\ UNCHANGED <<w, logs>>

\* The success branch of the handler: the reply built from getWeather's data
buildResponse_lastDescriptor(data) ==
    responseJSON(data.Weather[Len(data.Weather)].Main, getTemperature(data.Main.Temperature))

buildResponse(data) ==
    responseJSON(data.Weather[1].Main, getTemperature(data.Main.Temperature))

\* http.Get failed: the cause is logged, the error returned is generic
getFailed_leakCause(cause) ==
    [ret |-> Return(TRUE, cause, ZeroSuccess), log |-> LogLine("get weather", cause, "")]

getFailed(cause) ==
    [ret |-> Return(TRUE, "internal server error", ZeroSuccess), log |-> LogLine("get weather", cause, "")]

\* io.ReadAll failed
readFailed(cause) ==
    [ret |-> Return(TRUE, "internal server error", ZeroSuccess), log |-> LogLine("read request body", cause, "")]

Init ==
    /\ pc = "idle"
    /\ query = NoQuery
    /\ w = <<>>
    /\ logs = <<>>
    /\ calls = <<>>
    /\ resp = NoResp
    /\ getErr = "unset"
    /\ readErr = "unset"
    /\ bodyState = "none"
    /\ ret = NoReturn
    /\ nreq = 0
    /\ faults = FALSE
    /\ respFailed = FALSE
    /\ errFailed = FALSE
    /\ x = 0
    /\ labels = <<>>

\* The server hands a request to the handler; everything the handler and
\* getWeather hold is local to the request.
Request ==
    /\ pc \in {"idle", "done", "crashed"}
    /\ nreq < MaxRequests
    /\ \E q \in Queries : query' = q
    /\ pc' = "handler"
    /\ w' = <<>>
    /\ logs' = <<>>
    /\ calls' = <<>>
    /\ resp' = NoResp
    /\ getErr' = "unset"
    /\ readErr' = "unset"
    /\ bodyState' = "none"
    /\ ret' = NoReturn
    /\ respFailed' = FALSE
    /\ errFailed' = FALSE
    /\ nreq' = nreq + 1
    /\ UNCHANGED <<faults, x, labels>>

\* The handler up to the call of getWeather
Validate ==
    /\ pc = "handler"
    /\ IF validate(query).ok
       THEN /\ pc' = "getWeather"
            /\ UNCHANGED <<w, logs, errFailed>>
       ELSE \E marshalOK \in MarshalOutcomes : e(validate(query).msg, marshalOK)
    /\ UNCHANGED <<query, calls, resp, getErr, readErr, bodyState, ret, nreq, faults, respFailed, x, labels>>

\* getWeather: the URL and http.Get
HttpGet_retry ==
    /\ pc = "getWeather"
    /\ \/ \E cause \in NetErrors :
             /\ calls' = calls \o <<URL(validate(query).latitude, validate(query).longitude),
                                    URL(validate(query).latitude, validate(query).longitude)>>
             /\ getErr' = cause
             /\ logs' = Append(logs, getFailed(cause).log)
             /\ ret' = getFailed(cause).ret
             /\ pc' = "returned"
             /\ UNCHANGED <<resp, bodyState>>
       \/ \E status \in StatusCodes, body \in Bodies :
             /\ calls' = Append(calls, URL(validate(query).latitude, validate(query).longitude))
             /\ getErr' = ""
             /\ resp' = [StatusCode |-> status, Body |-> body]
             /\ bodyState' = "open"
             /\ pc' = "read"
             /\ UNCHANGED <<logs, ret>>
    /\ UNCHANGED <<query, w, readErr, nreq, faults, respFailed, errFailed, x, labels>>

HttpGet ==
    /\ pc = "getWeather"
    /\ calls' = Append(calls, URL(validate(query).latitude, validate(query).longitude))
    /\ \/ \E cause \in NetErrors :
             /\ getErr' = cause
             /\ logs' = Append(logs, getFailed(cause).log)
             /\ ret' = getFailed(cause).ret
             /\ pc' = "returned"
             /\ UNCHANGED <<resp, bodyState>>
       \/ \E status \in StatusCodes, body \in Bodies :
             /\ getErr' = ""
             /\ resp' = [StatusCode |-> status, Body |-> body]
             /\ bodyState' = "open"
             /\ pc' = "read"
             /\ UNCHANGED <<logs, ret>>
    /\ UNCHANGED <<query, w, readErr, nreq, faults, respFailed, errFailed, x, labels>>

\* getWeather from io.ReadAll to its return.  The deferred Close is
\* registered after the read-error return, so it runs only on the returns
\* that follow it.
ReadBody ==
    /\ pc = "read"
    /\ \E cause \in ReadErrors \cup {""} :
          /\ readErr' = cause
          /\ IF cause # ""
             THEN /\ logs' = Append(logs, readFailed(cause).log)
                  /\ ret' = readFailed(cause).ret
                  /\ UNCHANGED bodyState
             ELSE /\ logs' = logs \o parseResponse(resp.StatusCode, resp.Body).log
                  /\ ret' = parseResponse(resp.StatusCode, resp.Body).ret
                  /\ bodyState' = "closed"
    /\ pc' = "returned"
    /\ UNCHANGED <<query, w, calls, resp, getErr, nreq, faults, respFailed, errFailed, x, labels>>

\* The handler after getWeather returned.  data.Weather[0] on an empty slice
\* panics before anything is marshalled or written; a failed Marshal of the
\* response goes to e with the error's text.
Respond_guardEmpty ==
    /\ pc = "returned"
    /\ \E respOK \in MarshalOutcomes, errOK \in MarshalOutcomes :
          IF ret.isErr
          THEN e(ret.msg, errOK) /\ UNCHANGED respFailed
          ELSE IF ret.data.Weather = <<>>
          THEN e("internal server error", errOK) /\ UNCHANGED respFailed
          ELSE IF ~respOK
          THEN e(MarshalError, errOK) /\ respFailed' = TRUE
          ELSE /\ w' = Append(w, buildResponse(ret.data))
               /\ pc' = "done"
               /\ UNCHANGED <<logs, respFailed, errFailed>>
    /\ UNCHANGED <<query, calls, resp, getErr, readErr, bodyState, ret, nreq, faults, x, labels>>

Respond ==
    /\ pc = "returned"
    /\ \E respOK \in MarshalOutcomes, errOK \in MarshalOutcomes :
          IF ret.isErr
          THEN e(ret.msg, errOK) /\ UNCHANGED respFailed
          ELSE IF ret.data.Weather = <<>>
          THEN /\ pc' = "crashed"
               /\ UNCHANGED <<w, logs, respFailed, errFailed>>
          ELSE IF ~respOK
          THEN e(MarshalError, errOK) /\ respFailed' = TRUE
          ELSE /\ w' = Append(w, buildResponse(ret.data))
               /\ pc' = "done"
               /\ UNCHANGED <<logs, respFailed, errFailed>>
    /\ UNCHANGED <<query, calls, resp, getErr, readErr, bodyState, ret, nreq, faults, x, labels>>

Next == Request \/ Validate \/ HttpGet \/ ReadBody \/ Respond

Spec == Init /\ [][Next]_vars

\* The same program with json.Marshal allowed to fail
InitFault ==
    /\ pc = "idle"
    /\ query = NoQuery
    /\ w = <<>>
    /\ logs = <<>>
    /\ calls = <<>>
    /\ resp = NoResp
    /\ getErr = "unset"
    /\ readErr = "unset"
    /\ bodyState = "none"
    /\ ret = NoReturn
    /\ nreq = 0
    /\ faults = TRUE
    /\ respFailed = FALSE
    /\ errFailed = FALSE
    /\ x = 0
    /\ labels = <<>>

SpecFault == InitFault /\ [][Next]_vars

\* ------------------------------------------- the classifier on its own
ClassifyTemps == (((-TempBelow) * Scale) .. (TempAbove * Scale)) \cup {(-100) * Scale, 100 * Scale}

InitClassify ==
    /\ pc = "idle"
    /\ query = NoQuery
    /\ w = <<>>
    /\ logs = <<>>
    /\ calls = <<>>
    /\ resp = NoResp
    /\ getErr = "unset"
    /\ readErr = "unset"
    /\ bodyState = "none"
    /\ ret = NoReturn
    /\ nreq = 0
    /\ faults = FALSE
    /\ respFailed = FALSE
    /\ errFailed = FALSE
    /\ x \in ClassifyTemps
    /\ labels = <<>>

Classify ==
    /\ Len(labels) < MaxCalls
    /\ labels' = Append(labels, getTemperature(x))
    /\ UNCHANGED <<pc, query, w, logs, calls, resp, getErr, readErr, bodyState, ret, nreq, faults, respFailed, errFailed, x>>

NextClassify == Classify

SpecClassify == InitClassify /\ [][NextClassify]_vars

\* ---------------------------------------------------------- properties
\* The request has ended: the handler returned or panicked.
Ended == pc \in {"done", "crashed"}

\* The handler is past its four validation checks.
PastValidation == pc \notin {"idle", "handler"}

Parses(s) == ~ParseFloat(s).err

ValidQuery(q) ==
    /\ q.lat # <<>>
    /\ q.lon # <<>>
    /\ Parses(q.lat[1])
    /\ Parses(q.lon[1])

ValidationMessages ==
    {"missing query parameter: lat", "missing query parameter: lon",
     "invalid value: lat", "invalid value: lon"}

\* The request was answered with the error body for msg, and nothing else.
RepliedError(msg) == pc = "done" /\ w = <<[status |-> "error", message |-> msg]>>

\* C1: the query is validated in the order lat present, lon present, lat
\* parses, lon parses; the reply is the error body of the first check that
\* fails, and when none fails no validation error is written.
C1_ValidationOrder ==
    PastValidation =>
        /\ query.lat = <<>> => RepliedError("missing query parameter: lat")
        /\ (query.lat # <<>> /\ query.lon = <<>>) => RepliedError("missing query parameter: lon")
        /\ (query.lat # <<>> /\ query.lon # <<>> /\ ~Parses(query.lat[1])) =>
               RepliedError("invalid value: lat")
        /\ (query.lat # <<>> /\ query.lon # <<>> /\ Parses(query.lat[1]) /\ ~Parses(query.lon[1])) =>
               RepliedError("invalid value: lon")
        /\ ValidQuery(query) =>
               \A i \in 1..Len(w) : ~(w[i].status = "error" /\ w[i].message \in ValidationMessages)

\* Both keys absent: the answer names lat.
C1_Witness ==
    /\ query = [lat |-> <<>>, lon |-> <<>>]
    /\ RepliedError("missing query parameter: lat")

\* C2: no upstream GET is issued for a request whose validation fails, and
\* exactly one for a request whose validation succeeds, whatever the upstream
\* does; a validation error is answered before any call.
C2_OneUpstreamCall ==
    /\ Len(calls) <= 1
    /\ pc \in {"idle", "handler", "getWeather"} => calls = <<>>
    /\ (PastValidation /\ ~ValidQuery(query)) => (calls = <<>> /\ getErr = "unset")
    /\ (pc \in {"read", "returned", "done", "crashed"} /\ ValidQuery(query)) => Len(calls) = 1

\* The upstream call failed at network level and the request was answered.
C2_Witness ==
    /\ pc = "done"
    /\ getErr = "connection refused"
    /\ Len(calls) = 1
    /\ calls[1].lat = 5 * Scale
    /\ calls[1].lon = (-33) * Scale

\* The classifier's table as the specification gives it: the label of the
\* first interval [a, b) that holds t, "HOT" when none does.
Intervals ==
    << [a |-> -4, b |-> 0,  label |-> "freezing"],
       [a |-> 0,  b |-> 4,  label |-> "very cold"],
       [a |-> 4,  b |-> 8,  label |-> "cold"],
       [a |-> 8,  b |-> 12, label |-> "not so cold"],
       [a |-> 12, b |-> 16, label |-> "mild"],
       [a |-> 16, b |-> 20, label |-> "less mild"],
       [a |-> 20, b |-> 24, label |-> "getting hot"] >>

Holds(i, t) == Intervals[i].a * Scale <= t /\ t < Intervals[i].b * Scale

ClaimedLabel(t) ==
    IF \E i \in 1..Len(Intervals) : Holds(i, t)
    THEN Intervals[CHOOSE i \in 1..Len(Intervals) :
                       Holds(i, t) /\ \A j \in 1..(i - 1) : ~Holds(j, t)].label
    ELSE "HOT"

\* C3: getTemperature(t) is the label of the first half-open interval that
\* holds t and "HOT" outside [-4, 24), below as well as above; a lower bound
\* belongs to its interval and an upper bound to the next one.
C3_Intervals ==
    \A i \in 1..Len(labels) :
        /\ labels[i] = ClaimedLabel(x)
        /\ (x < (-4) * Scale \/ x >= 24 * Scale) => labels[i] = "HOT"
        /\ x = (-4) * Scale => labels[i] = "freezing"
        /\ x = 0 => labels[i] = "very cold"
        /\ x = 24 * Scale - 1 => labels[i] = "getting hot"
        /\ x = 24 * Scale => labels[i] = "HOT"

\* The classifier was called on the lowest bound of the table.
C3_Witness == x = (-4) * Scale /\ labels # <<>> /\ labels[1] = "freezing"

\* The upstream answered, its body was read, and the body is an object whose
\* weather member is an array with at least one descriptor.
SuccessPayload ==
    /\ getErr = ""
    /\ readErr = ""
    /\ resp.StatusCode = StatusOK
    /\ resp.Body.kind = "object"
    /\ resp.Body.weather.has
    /\ resp.Body.weather.typeOK
    /\ Len(resp.Body.weather.val) >= 1

\* C4: on an upstream success with at least one descriptor the reply is the
\* object with exactly status, condition and temperature_feel: status empty,
\* condition the main label of the first descriptor, temperature_feel the
\* classifier's label of the payload's temperature.
C4_SuccessReply ==
    (Ended /\ SuccessPayload) =>
        /\ pc = "done"
        /\ Len(w) = 1
        /\ DOMAIN w[1] = {"status", "condition", "temperature_feel"}
        /\ w[1].status = ""
        /\ w[1].condition = resp.Body.weather.val[1]
        /\ w[1].temperature_feel = getTemperature(resp.Body.temp.val)

\* Two descriptors that differ, at 18.5 degrees: the first one is reported.
C4_Witness ==
    /\ pc = "done"
    /\ SuccessPayload
    /\ resp.Body.weather.val = <<"Rain", "Clear">>
    /\ resp.Body.temp.val = 18 * Scale + (Scale \div 2)
    /\ w = <<[status |-> "", condition |-> "Rain", temperature_feel |-> "less mild"]>>

\* The upstream answered with a non-success status, its body was read and
\* decodes as an error payload.
ErrorPayload ==
    /\ getErr = ""
    /\ readErr = ""
    /\ resp.StatusCode # StatusOK
    /\ UnmarshalError(resp.Body).err = ""

\* C5: on a non-success status with a parseable error body the reply is the
\* error body carrying exactly the provider's message; the provider's code is
\* in the log and not in the reply, and no success response is written.
C5_UpstreamError ==
    (Ended /\ ErrorPayload) =>
        /\ RepliedError(resp.Body.message.val)
        /\ DOMAIN w[1] = {"status", "message"}
        /\ resp.Body.cod.has => w[1].message # resp.Body.cod.text
        /\ \E i \in 1..Len(logs) :
               logs[i].prefix = "non-200 response" /\ logs[i].code = resp.Body.cod.text

\* 404 with {"cod":"404","message":"city not found"}
C5_Witness ==
    /\ ErrorPayload
    /\ resp.StatusCode = 404
    /\ resp.Body.cod = [has |-> TRUE, isString |-> TRUE, text |-> "404"]
    /\ RepliedError("city not found")

\* The cause of an upstream failure that is not an upstream error payload:
\* the network error, the read error, or the decoding error of the body
\* under its status; "" when there is no such failure.
InternalCause ==
    IF getErr = "unset" THEN ""
    ELSE IF getErr # "" THEN getErr
    ELSE IF readErr = "unset" THEN ""
    ELSE IF readErr # "" THEN readErr
    ELSE IF resp.StatusCode # StatusOK THEN UnmarshalError(resp.Body).err
    ELSE UnmarshalSuccess(resp.Body).err

\* C6: a network failure, a body-read failure or an unparseable body is
\* answered with exactly "internal server error"; the cause is in the log and
\* not in the reply.
C6_InternalError ==
    (Ended /\ InternalCause # "") =>
        /\ RepliedError("internal server error")
        /\ \E i \in 1..Len(logs) : logs[i].cause = InternalCause
        /\ w[1].message # InternalCause

\* A refused connection, answered.
C6_Witness ==
    /\ getErr = "connection refused"
    /\ RepliedError("internal server error")

\* C7: once http.Get has returned a response, getWeather does not return
\* with the response body still open.
C7_BodyReleased ==
    (pc \in {"returned", "done", "crashed"} /\ getErr = "") => bodyState = "closed"

\* A body written for the current request has the error shape.
ErrorBodyWritten == \E i \in 1..Len(w) : w[i].status = "error"

Labels ==
    {"freezing", "very cold", "cold", "not so cold", "mild", "less mild", "getting hot", "HOT"}

AllSame(seq) == \A i, j \in 1..Len(seq) : seq[i] = seq[j]

EmptyDescriptors ==
    /\ getErr = ""
    /\ readErr = ""
    /\ resp.StatusCode = StatusOK
    /\ resp.Body.kind \in {"null", "object"}
    /\ ~(resp.Body.weather.has /\ ~resp.Body.weather.typeOK)
    /\ resp.Body.weather.val = <<>>

\* C10: a success status with a body that decodes to no descriptor crashes
\* the handler: the request ends with nothing written, neither the success
\* response nor an error body.
C10_EmptyDescriptorsCrash ==
    (Ended /\ EmptyDescriptors) => (pc = "crashed" /\ w = <<>>)

\* An error-shaped body under status 200.
C10_Witness ==
    /\ pc = "crashed"
    /\ EmptyDescriptors
    /\ resp.Body \in ErrorBodies

====
